---- MODULE Spec2Model ----
(***************************************************************************)
(* RBAC/ABAC permission engine of rcm-backend                              *)
(* (app/features/permissions): the condition evaluator, the grant          *)
(* resolver, the decision engine and the administrative routes that change *)
(* the relation store.                                                     *)
(*                                                                         *)
(* The specifications share the variables:                                 *)
(*   SpecCond   - evaluate_conditions applied to bounded inputs            *)
(*   Spec       - the relation store under the administrative routes       *)
(*   SpecAssign - assignment requests whose existence check and insert     *)
(*                interleave (two requests in flight)                      *)
(*   SpecOrg    - membership, current organization and the /check route    *)
(*   SpecDecide - one decision, dependency or listing call on a store      *)
(*                whose permissions carry varied conditions                *)
(*   SpecCreate - create requests whose add and commit interleave, and     *)
(*                the audit write each queues as a background task         *)
(*   SpecSelf   - the store under the routes a non-admin user may call     *)
(*   SpecAdmin  - toggle_admin_status requests that interleave             *)
(*   SpecUpdate - update_permission                                        *)
(*   SpecReview - review_access_request requests that interleave           *)
(*   SpecAddr   - the address routes of an organization                    *)
(* The audit tasks are kept in SpecCreate, SpecAssign and SpecUpdate.      *)
(***************************************************************************)
EXTENDS Integers, Sequences, FiniteSets, TLC

(***************************************************************************)
(* Bounds of the model.                                                    *)
(***************************************************************************)
\* rows the five grant tables may hold together
MaxEdges == 3
\* entries of a day_of_week or ip_range list
MaxList == 2

(***************************************************************************)
(* Strings.  str.lower() is the table below over the strings the model     *)
(* uses.                                                                   *)
(***************************************************************************)
DayStrings == {"monday", "Monday", "MONDAY", "tuesday", "Tuesday", "sunday", "Sunday"}

lower(s) ==
    CASE s \in {"monday", "Monday", "MONDAY"} -> "monday"
      [] s \in {"tuesday", "Tuesday"} -> "tuesday"
      [] s \in {"sunday", "Sunday"} -> "sunday"
      [] OTHER -> s

(***************************************************************************)
(* Times.  A datetime.time is its number of seconds since midnight.  A     *)
(* "%H:%M" string is the record of its two numerals; text that does not    *)
(* match the format is kind "text".                                        *)
(***************************************************************************)
HHMM(h, m) == [kind |-> "hhmm", h |-> h, m |-> m]

BadText == [kind |-> "text", h |-> 0, m |-> 0]

TimeOf(h, m, s) == [kind |-> "time", secs |-> h * 3600 + m * 60 + s]

\* datetime.strptime(s, "%H:%M").time(): ValueError unless 0 <= H <= 23, 0 <= M <= 59
strptime_ok(s) == s.kind = "hhmm" /\ s.h \in 0..23 /\ s.m \in 0..59

strptime(s) == [kind |-> "time", secs |-> s.h * 3600 + s.m * 60]

(***************************************************************************)
(* evaluate_conditions.  `conditions` is None or a sequence of <<key,      *)
(* value>> pairs in the mapping's iteration order; `context` is a record   *)
(* of the four keys the evaluator reads, a key that is absent or None      *)
(* holding NoTime or NoneStr; `now` is what datetime.now() gives at the    *)
(* moment of evaluation.                                                   *)
(* The outcome is "True", "False", or "TypeError" when an exception other  *)
(* than ValueError/IndexError leaves the function.                         *)
(***************************************************************************)
NoTime == [kind |-> "none", secs |-> 0]

NoneStr == "<None>"

EmptyStr == ""

\* context.get(key) is truthy
Has(context, key) ==
    IF key = "current_time" THEN context[key].kind # "none"
    ELSE context[key] \notin {NoneStr, EmptyStr}

\* a plausible slip: the upper bound excluded
time_between_exclusive_end(start_time, current_time, end_time) ==
    start_time.secs <= current_time.secs /\ current_time.secs < end_time.secs

\* start_time <= current_time <= end_time
time_in_range(start_time, current_time, end_time) ==
    start_time.secs <= current_time.secs /\ current_time.secs <= end_time.secs

check_time_between(condition_value, context, now) ==
    LET current_time == IF Has(context, "current_time") THEN context["current_time"]
                        ELSE now.time
    IN  IF Len(condition_value) < 1 THEN "False"                       \* IndexError
        ELSE IF ~strptime_ok(condition_value[1]) THEN "False"         \* ValueError
        ELSE IF Len(condition_value) < 2 THEN "False"                  \* IndexError
        ELSE IF ~strptime_ok(condition_value[2]) THEN "False"         \* ValueError
        ELSE IF current_time.kind # "time" THEN "TypeError"            \* time <= str
        ELSE IF time_in_range(strptime(condition_value[1]), current_time,
                              strptime(condition_value[2]))
             THEN "True" ELSE "False"

\* a plausible slip: membership alone, the presence test left out
check_ip_range_membership_only(condition_value, context) ==
    IF \E i \in 1..Len(condition_value) : condition_value[i] = context["ip_address"]
    THEN "True" ELSE "False"

check_ip_range(condition_value, context) ==
    IF ~Has(context, "ip_address") THEN "False"
    ELSE IF \E i \in 1..Len(condition_value) : condition_value[i] = context["ip_address"]
         THEN "True" ELSE "False"

check_day_of_week(condition_value, context, now) ==
    LET current_day == IF Has(context, "day_of_week") THEN context["day_of_week"]
                       ELSE lower(now.day)
    IN  IF \E i \in 1..Len(condition_value) : lower(condition_value[i]) = current_day
        THEN "True" ELSE "False"

check_department(condition_value, context) ==
    IF context["department"] = condition_value THEN "True" ELSE "False"

\* a plausible slip: an unknown condition kind fails
check_condition_unknown_fails(condition_key, condition_value, context, now) ==
    CASE condition_key = "time_between" -> check_time_between(condition_value, context, now)
      [] condition_key = "ip_range" -> check_ip_range(condition_value, context)
      [] condition_key = "day_of_week" -> check_day_of_week(condition_value, context, now)
      [] condition_key = "department" -> check_department(condition_value, context)
      [] OTHER -> "False"

check_condition(condition_key, condition_value, context, now) ==
    CASE condition_key = "time_between" -> check_time_between(condition_value, context, now)
      [] condition_key = "ip_range" -> check_ip_range(condition_value, context)
      [] condition_key = "day_of_week" -> check_day_of_week(condition_value, context, now)
      [] condition_key = "department" -> check_department(condition_value, context)
      [] OTHER -> "True"

\* a plausible slip: the first entry of the mapping decides alone
evaluate_first_item_only(items, i, context, now) ==
    IF i > Len(items) THEN "True"
    ELSE check_condition(items[i][1], items[i][2], context, now)

RECURSIVE evaluate_items(_, _, _, _)
evaluate_items(items, i, context, now) ==
    IF i > Len(items) THEN "True"
    ELSE LET r == check_condition(items[i][1], items[i][2], context, now)
         IN  IF r = "True" THEN evaluate_items(items, i + 1, context, now) ELSE r

evaluate_conditions(conditions, context, now) ==
    IF conditions = <<>> THEN "True" ELSE evaluate_items(conditions, 1, context, now)

(***************************************************************************)
(* The relation store.                                                     *)
(***************************************************************************)
Users == {"admin", "bob"}

\* the user_id the assignment requests of the model name
Grantees == {"bob"}

Orgs == {"o1", "o2"}

\* organization_id absent (None or "")
NoOrg == "<no-org>"

PermIds == {"p1", "p2"}

RoleIds == {"r1"}

GroupIds == {"g1"}

Resources == {"claims", "reports"}

Actions == {"read", "delete"}

OfficeHours == << <<"time_between", <<HHMM(9, 0), HHMM(17, 0)>> >> >>

\* scripts/seed_permissions.py: claims:read, held by the role claims_viewer
SeededPermission ==
    [name |-> "claims:read", resource |-> "claims", action |-> "read", conditions |-> <<>>]

SeededRole == [name |-> "claims_viewer", organization_id |-> NoOrg]

\* request bodies of POST /permissions
PermissionPayloads ==
    { [name |-> "claims:read_office", resource |-> "claims", action |-> "read",
       conditions |-> OfficeHours],
      [name |-> "reports:read", resource |-> "reports", action |-> "read",
       conditions |-> <<>>] }

VARIABLES
    fk_enforced,                    \* the backend enforces FOREIGN KEY / ON DELETE
    permissions,                    \* permissions table: id -> row
    roles,                          \* roles table: id -> row
    groups,                         \* groups table: id -> row
    retired,                        \* ids of deleted rows (a ULID is never drawn twice)
    role_permissions,               \* <<role_id, permission_id>>
    organization_user_roles,        \* <<organization_id, user_id, role_id>>
    organization_user_permissions,  \* <<organization_id, user_id, permission_id>>
    organization_user_groups,       \* <<organization_id, user_id, group_id>>
    group_roles,                    \* <<group_id, role_id>>
    users,                          \* users table: id -> [is_admin, current_organization_id]
    user_organizations,             \* <<user_id, organization_id>>
    requests,                       \* assignment requests in flight (SpecAssign)
    last_check,                     \* what POST /check last answered (SpecOrg)
    ev_conditions, ev_context, ev_now, ev_result,  \* SpecCond
    guard,                          \* what a require_any_permission dependency answered
    listing,                        \* what GET /users/{user_id}/permissions answered
    audit_tasks,                    \* create_audit_log calls queued as background tasks
    audit_logs,                     \* audit_logs table
    toggles,                        \* toggle_admin_status requests in flight (SpecAdmin)
    access_requests,                \* organization_access_requests table: id -> row
    reviews,                        \* review_access_request requests in flight (SpecReview)
    addresses                       \* organization_addresses table: id -> row

entityVars == <<permissions, roles, groups, retired>>

edgeVars == <<role_permissions, organization_user_roles, organization_user_permissions,
              organization_user_groups, group_roles>>

userVars == <<users, user_organizations>>

\* the variables of the users and organizations routes
orgVars == <<toggles, access_requests, reviews, addresses>>

\* the variables the administrative routes of the store never touch
condVars == <<ev_conditions, ev_context, ev_now, ev_result, guard, listing, audit_tasks,
              audit_logs, orgVars>>

vars == <<fk_enforced, entityVars, edgeVars, userVars, requests, last_check, condVars>>

TotalEdges ==
    Cardinality(role_permissions) + Cardinality(organization_user_roles)
    + Cardinality(organization_user_permissions) + Cardinality(organization_user_groups)
    + Cardinality(group_roles)

UserObj(u) ==
    [id |-> u, is_admin |-> users[u].is_admin,
     current_organization_id |-> users[u].current_organization_id]

(***************************************************************************)
(* Grant resolver.  perm_order is the order in which the backend returns   *)
(* permission rows (no ORDER BY): a sequence holding every permission id   *)
(* once.  A query yields one row per join row, so a permission reached     *)
(* through two roles comes twice.                                          *)
(***************************************************************************)
RECURSIVE RowOrders(_)
RowOrders(S) ==
    IF S = {} THEN { <<>> }
    ELSE UNION { { <<x>> \o rest : rest \in RowOrders(S \ {x}) } : x \in S }

RECURSIVE Repeat(_, _)
Repeat(x, n) == IF n = 0 THEN <<>> ELSE <<x>> \o Repeat(x, n - 1)

\* rows of a SELECT Permission JOIN ...: `count[p]` join rows for permission p
RECURSIVE QueryRows(_, _, _)
QueryRows(perm_order, i, count) ==
    IF i > Len(perm_order) THEN <<>>
    ELSE Repeat(perm_order[i], count[perm_order[i]]) \o QueryRows(perm_order, i + 1, count)

\* a plausible slip: the direct grants left out of the resolution
DirectCountNone(user_id, organization_id) == [p \in PermIds |-> 0]

DirectCount(user_id, organization_id) ==
    [p \in PermIds |->
        IF p \in DOMAIN permissions
           /\ <<organization_id, user_id, p>> \in organization_user_permissions
        THEN 1 ELSE 0]

\* a plausible slip: the roles of the user taken from every organization
RoleCountAnyOrg(user_id, organization_id) ==
    [p \in PermIds |->
        IF p \in DOMAIN permissions
        THEN Cardinality({r \in RoleIds :
                 /\ <<r, p>> \in role_permissions
                 /\ \E o \in Orgs : <<o, user_id, r>> \in organization_user_roles})
        ELSE 0]

RoleCount(user_id, organization_id) ==
    [p \in PermIds |->
        IF p \in DOMAIN permissions
        THEN Cardinality({r \in RoleIds :
                 /\ <<r, p>> \in role_permissions
                 /\ <<organization_id, user_id, r>> \in organization_user_roles})
        ELSE 0]

GroupCount(user_id, organization_id) ==
    [p \in PermIds |->
        IF p \in DOMAIN permissions
        THEN Cardinality({gr \in group_roles :
                 /\ <<gr[2], p>> \in role_permissions
                 /\ <<organization_id, user_id, gr[1]>> \in organization_user_groups})
        ELSE 0]

\* a plausible slip: a list appended to instead of a map keyed by id
dict_append(permissions_map, perm_id) == Append(permissions_map, perm_id)

\* permissions_map[perm.id] = perm, the map kept as its keys in insertion order
dict_set(permissions_map, perm_id) ==
    IF \E i \in 1..Len(permissions_map) : permissions_map[i] = perm_id
    THEN permissions_map
    ELSE Append(permissions_map, perm_id)

RECURSIVE dict_update(_, _, _)
dict_update(permissions_map, rows, i) ==
    IF i > Len(rows) THEN permissions_map
    ELSE dict_update(dict_set(permissions_map, rows[i]), rows, i + 1)

get_user_permissions_in_org(user_id, organization_id, perm_order) ==
    LET direct_permissions == QueryRows(perm_order, 1, DirectCount(user_id, organization_id))
        role_permissions_list == QueryRows(perm_order, 1, RoleCount(user_id, organization_id))
        group_permissions_list == QueryRows(perm_order, 1, GroupCount(user_id, organization_id))
        m1 == dict_update(<<>>, direct_permissions, 1)
        m2 == dict_update(m1, role_permissions_list, 1)
    IN  dict_update(m2, group_permissions_list, 1)

(***************************************************************************)
(* Decision engine.                                                        *)
(***************************************************************************)
\* a plausible slip: some organization assumed when none is known
effective_organization_or_first(user, organization_id) ==
    IF organization_id # NoOrg THEN organization_id
    ELSE IF user.current_organization_id # NoOrg THEN user.current_organization_id
    ELSE "o1"

\* organization_id, else user.current_organization_id
effective_organization(user, organization_id) ==
    IF organization_id = NoOrg THEN user.current_organization_id ELSE organization_id

\* context.setdefault("current_time", now), context.setdefault("day_of_week", now)
with_defaults(context, now) ==
    [context EXCEPT
        !.current_time = IF context.current_time.kind = "none" THEN now.time ELSE @,
        !.day_of_week = IF context.day_of_week = NoneStr THEN lower(now.day) ELSE @]

permission_matches(permission, resource, action) ==
    permission.resource = resource /\ permission.action = action

\* a plausible slip: the first permission on (resource, action) decides alone
RECURSIVE check_first_match_only(_, _, _, _, _, _)
check_first_match_only(perms, i, resource, action, context, now) ==
    IF i > Len(perms) THEN "False"
    ELSE IF permission_matches(permissions[perms[i]], resource, action)
         THEN evaluate_conditions(permissions[perms[i]].conditions, context, now)
         ELSE check_first_match_only(perms, i + 1, resource, action, context, now)

\* the loop over the resolved permissions, from position i
RECURSIVE check_permissions(_, _, _, _, _, _)
check_permissions(perms, i, resource, action, context, now) ==
    IF i > Len(perms) THEN "False"
    ELSE IF permission_matches(permissions[perms[i]], resource, action)
         THEN LET r == evaluate_conditions(permissions[perms[i]].conditions, context, now)
              IN  IF r = "False"
                  THEN check_permissions(perms, i + 1, resource, action, context, now)
                  ELSE r
         ELSE check_permissions(perms, i + 1, resource, action, context, now)

\* a plausible slip: no bypass for administrators
admin_bypass_never(user) == FALSE

\* if user.is_admin: return True
admin_bypass(user) == user.is_admin

\* the result, and whether the grant relations were read
has_permission_run(user, resource, action, organization_id, context, now, perm_order) ==
    IF admin_bypass(user) THEN [result |-> "True", resolved |-> NoOrg]
    ELSE LET org == effective_organization(user, organization_id)
         IN  IF org = NoOrg THEN [result |-> "False", resolved |-> NoOrg]
             ELSE [result |-> check_permissions(
                                  get_user_permissions_in_org(user.id, org, perm_order),
                                  1, resource, action, with_defaults(context, now), now),
                   resolved |-> org]

has_permission(user, resource, action, organization_id, context, now, perm_order) ==
    has_permission_run(user, resource, action, organization_id, context, now,
                       perm_order).result

(***************************************************************************)
(* Storage primitives.  Every grant table has its whole key as PRIMARY KEY *)
(* and FOREIGN KEYs with ON DELETE CASCADE; the session's AsyncSession     *)
(* deletes the rows of a relationship's secondary table itself.            *)
(***************************************************************************)
AssignKinds == {"user_role", "user_permission", "user_group", "group_role", "role_permission"}

Table(kind) ==
    CASE kind = "user_role" -> organization_user_roles
      [] kind = "user_permission" -> organization_user_permissions
      [] kind = "user_group" -> organization_user_groups
      [] kind = "group_role" -> group_roles
      [] kind = "role_permission" -> role_permissions

\* every FOREIGN KEY of the row names an existing row
fk_ok(kind, row) ==
    CASE kind = "user_role" -> row[1] \in Orgs /\ row[2] \in Users /\ row[3] \in DOMAIN roles
      [] kind = "user_permission" ->
            row[1] \in Orgs /\ row[2] \in Users /\ row[3] \in DOMAIN permissions
      [] kind = "user_group" -> row[1] \in Orgs /\ row[2] \in Users /\ row[3] \in DOMAIN groups
      [] kind = "group_role" -> row[1] \in DOMAIN groups /\ row[2] \in DOMAIN roles
      [] kind = "role_permission" -> row[1] \in DOMAIN roles /\ row[2] \in DOMAIN permissions

\* a plausible slip: the existence lookup never finds the row
never_assigned(kind, row) == FALSE

\* the existence lookup before the insert (check_stmt ... check_result.first())
already_assigned(kind, row) == row \in Table(kind)

\* INSERT: IntegrityError on a duplicate key, or on a dangling FOREIGN KEY
\* when the backend enforces them
insert_accepted(kind, row) ==
    /\ row \notin Table(kind)
    /\ fk_enforced => fk_ok(kind, row)

\* the tables after `row` is added to table `kind`
InsertRow(kind, row) ==
    /\ organization_user_roles' =
          IF kind = "user_role" THEN organization_user_roles \cup {row}
          ELSE organization_user_roles
    /\ organization_user_permissions' =
          IF kind = "user_permission" THEN organization_user_permissions \cup {row}
          ELSE organization_user_permissions
    /\ organization_user_groups' =
          IF kind = "user_group" THEN organization_user_groups \cup {row}
          ELSE organization_user_groups
    /\ group_roles' = IF kind = "group_role" THEN group_roles \cup {row} ELSE group_roles
    /\ role_permissions' =
          IF kind = "role_permission" THEN role_permissions \cup {row} ELSE role_permissions

\* ON DELETE CASCADE fires only where FOREIGN KEYs are enforced
Cascade(table, col, id) ==
    IF fk_enforced THEN {row \in table : row[col] # id} ELSE table

\* rows the session deletes for a many-to-many relationship of a deleted
\* object: one per loaded member of the collection
OrmUnlink(table, col, id, other_col, loaded) ==
    {row \in table : ~(row[col] = id /\ row[other_col] \in loaded)}

Remove(f, id) == [x \in DOMAIN f \ {id} |-> f[x]]

Put(f, id, row) == [x \in DOMAIN f \cup {id} |-> IF x = id THEN row ELSE f[x]]

FreshIds(pool, f) == pool \ (DOMAIN f \cup retired)

(***************************************************************************)
(* Administrative routes, each handler one step.  A handler that ends in   *)
(* 403, 404, 409 or an unhandled IntegrityError leaves the store as it     *)
(* was.                                                                    *)
(***************************************************************************)
create_permission(actor, permission) ==
    /\ users[actor].is_admin
    /\ \A p \in DOMAIN permissions : permissions[p].name # permission.name
    /\ \E id \in FreshIds(PermIds, permissions) :
          permissions' = Put(permissions, id, permission)
    /\ UNCHANGED <<fk_enforced, roles, groups, retired, edgeVars, userVars, requests,
                   last_check, condVars>>

delete_permission(actor, permission_id) ==
    /\ users[actor].is_admin
    /\ permission_id \in DOMAIN permissions
    /\ permissions' = Remove(permissions, permission_id)
    /\ retired' = retired \cup {permission_id}
    /\ role_permissions' =
          Cascade(OrmUnlink(role_permissions, 2, permission_id, 1, DOMAIN roles),
                  2, permission_id)
    /\ organization_user_permissions' =
          Cascade(organization_user_permissions, 3, permission_id)
    /\ UNCHANGED <<fk_enforced, roles, groups, organization_user_roles,
                   organization_user_groups, group_roles, userVars, requests, last_check,
                   condVars>>

delete_role(actor, role_id) ==
    /\ role_id \in DOMAIN roles
    /\ roles' = Remove(roles, role_id)
    /\ retired' = retired \cup {role_id}
    /\ role_permissions' =
          Cascade(OrmUnlink(role_permissions, 1, role_id, 2, DOMAIN permissions), 1, role_id)
    /\ group_roles' = Cascade(OrmUnlink(group_roles, 2, role_id, 1, DOMAIN groups), 2, role_id)
    /\ organization_user_roles' = Cascade(organization_user_roles, 3, role_id)
    /\ UNCHANGED <<fk_enforced, permissions, groups, organization_user_permissions,
                   organization_user_groups, userVars, requests, last_check, condVars>>

assign_permission_to_role(actor, role_id, permission_id) ==
    /\ role_id \in DOMAIN roles
    /\ permission_id \in DOMAIN permissions
    /\ ~already_assigned("role_permission", <<role_id, permission_id>>)
    /\ insert_accepted("role_permission", <<role_id, permission_id>>)
    /\ TotalEdges < MaxEdges
    /\ InsertRow("role_permission", <<role_id, permission_id>>)
    /\ UNCHANGED <<fk_enforced, entityVars, userVars, requests, last_check, condVars>>

remove_permission_from_role(actor, role_id, permission_id) ==
    /\ <<role_id, permission_id>> \in role_permissions
    /\ role_permissions' = role_permissions \ {<<role_id, permission_id>>}
    /\ UNCHANGED <<fk_enforced, entityVars, organization_user_roles,
                   organization_user_permissions, organization_user_groups, group_roles,
                   userVars, requests, last_check, condVars>>

create_group(actor, organization_id) ==
    /\ users[actor].is_admin \/ <<actor, organization_id>> \in user_organizations
    /\ \E id \in FreshIds(GroupIds, groups) :
          groups' = Put(groups, id, [organization_id |-> organization_id])
    /\ UNCHANGED <<fk_enforced, permissions, roles, retired, edgeVars, userVars, requests,
                   last_check, condVars>>

delete_group(actor, group_id) ==
    /\ group_id \in DOMAIN groups
    /\ groups' = Remove(groups, group_id)
    /\ retired' = retired \cup {group_id}
    /\ group_roles' = Cascade(OrmUnlink(group_roles, 1, group_id, 2, DOMAIN roles), 1, group_id)
    /\ organization_user_groups' = Cascade(organization_user_groups, 3, group_id)
    /\ UNCHANGED <<fk_enforced, permissions, roles, role_permissions,
                   organization_user_roles, organization_user_permissions, userVars,
                   requests, last_check, condVars>>

\* the four routes that look the row up and insert it
assign(kind, row) ==
    /\ ~already_assigned(kind, row)
    /\ insert_accepted(kind, row)
    /\ TotalEdges < MaxEdges
    /\ InsertRow(kind, row)
    /\ UNCHANGED <<fk_enforced, entityVars, userVars, requests, last_check, condVars>>

assign_role_to_user(actor, organization_id, user_id, role_id) ==
    assign("user_role", <<organization_id, user_id, role_id>>)

assign_permission_to_user(actor, organization_id, user_id, permission_id) ==
    assign("user_permission", <<organization_id, user_id, permission_id>>)

add_user_to_group(actor, group_id, organization_id, user_id) ==
    assign("user_group", <<organization_id, user_id, group_id>>)

assign_role_to_group(actor, group_id, role_id) ==
    assign("group_role", <<group_id, role_id>>)

(***************************************************************************)
(* Spec: the store under the administrative routes.                        *)
(***************************************************************************)
NoCheck ==
    [user |-> "admin", resource |-> "claims", action |-> "read", organization_id |-> NoOrg,
     current_organization_id |-> NoOrg, result |-> "none", resolved |-> NoOrg]

NoContext ==
    [current_time |-> NoTime, ip_address |-> NoneStr, day_of_week |-> NoneStr,
     department |-> NoneStr]

Noon == [time |-> TimeOf(12, 0, 0), day |-> "Monday"]

IdleRequest == [pc |-> "idle", kind |-> "user_role", row |-> <<>>, outcome |-> "none",
                after |-> {}, overlap |-> {}]

Requests == {"A", "B"}

InitStore ==
    /\ fk_enforced \in BOOLEAN
    /\ permissions = [p \in {"p1"} |-> SeededPermission]
    /\ roles = [r \in {"r1"} |-> SeededRole]
    /\ groups = [g \in {} |-> [organization_id |-> NoOrg]]
    /\ retired = {}
    /\ role_permissions = {<<"r1", "p1">>}
    /\ organization_user_roles = {}
    /\ organization_user_permissions = {}
    /\ organization_user_groups = {}
    /\ group_roles = {}
    /\ users = [u \in Users |-> [is_admin |-> (u = "admin"),
                                 current_organization_id |-> NoOrg]]
    /\ user_organizations = {<<"admin", o>> : o \in Orgs}

InitIdle ==
    /\ requests = [s \in Requests |-> IdleRequest]
    /\ last_check = NoCheck

NoGuard == [user |-> "admin", pairs |-> <<>>, organization_id |-> NoOrg, now |-> Noon,
            outcome |-> "none", calls |-> 0]

NoListing ==
    [caller |-> "admin", user_id |-> "admin", organization_id |-> NoOrg, status |-> "none",
     all_permissions |-> <<>>]

\* a request slot before toggle_admin_status is called
NoToggle ==
    [pc |-> "idle", admin |-> "admin", user_id |-> "admin", is_admin |-> FALSE,
     outcome |-> "none"]

\* a request slot before review_access_request is called
NoReview ==
    [pc |-> "idle", user |-> "admin", request_id |-> "q1", approved |-> FALSE,
     outcome |-> "none"]

InitOrgRoutes ==
    /\ toggles = [s \in Requests |-> NoToggle]
    /\ access_requests = [q \in {} |-> [status |-> "pending"]]
    /\ reviews = [s \in Requests |-> NoReview]
    /\ addresses = [x \in {} |-> [is_default |-> FALSE]]

InitAnswers ==
    /\ guard = NoGuard
    /\ listing = NoListing
    /\ audit_tasks = {}
    /\ audit_logs = {}
    /\ InitOrgRoutes

InitCondIdle ==
    /\ ev_conditions = <<>>
    /\ ev_context = NoContext
    /\ ev_now = Noon
    /\ ev_result = "none"
    /\ InitAnswers

Init == InitStore /\ InitIdle /\ InitCondIdle

Next ==
    \E actor \in Users :
        \/ \E permission \in PermissionPayloads : create_permission(actor, permission)
        \/ \E p \in PermIds : delete_permission(actor, p)
        \/ \E r \in RoleIds : delete_role(actor, r)
        \/ \E r \in RoleIds, p \in PermIds : assign_permission_to_role(actor, r, p)
        \/ \E r \in RoleIds, p \in PermIds : remove_permission_from_role(actor, r, p)
        \/ \E o \in Orgs : create_group(actor, o)
        \/ \E g \in GroupIds : delete_group(actor, g)
        \/ \E o \in Orgs, u \in Grantees, r \in RoleIds : assign_role_to_user(actor, o, u, r)
        \/ \E o \in Orgs, u \in Grantees, p \in PermIds :
              assign_permission_to_user(actor, o, u, p)
        \/ \E g \in GroupIds, o \in Orgs, u \in Grantees : add_user_to_group(actor, g, o, u)
        \/ \E g \in GroupIds, r \in RoleIds : assign_role_to_group(actor, g, r)

Spec == Init /\ [][Next]_vars

(***************************************************************************)
(* Inputs of the decision the properties range over.                       *)
(***************************************************************************)
OrgArgs == Orgs \cup {NoOrg}

Evening == [time |-> TimeOf(20, 0, 0), day |-> "Sunday"]

Nows == {Noon, Evening}

CheckContexts == {NoContext, [NoContext EXCEPT !.current_time = TimeOf(20, 0, 0)]}

Orders == RowOrders(PermIds)

Range(seq) == {seq[i] : i \in 1..Len(seq)}

NoDuplicates(seq) == \A i, j \in 1..Len(seq) : seq[i] = seq[j] => i = j

NonAdmins == {u \in Users : ~users[u].is_admin}

\* the three grant sources, as sets of permission ids
DirectPermissions(u, o) ==
    {p \in DOMAIN permissions : <<o, u, p>> \in organization_user_permissions}

RolePermissions(u, o) ==
    {p \in DOMAIN permissions :
        \E r \in RoleIds : <<o, u, r>> \in organization_user_roles
                           /\ <<r, p>> \in role_permissions}

GroupPermissions(u, o) ==
    {p \in DOMAIN permissions :
        \E g \in GroupIds, r \in RoleIds :
            /\ <<o, u, g>> \in organization_user_groups
            /\ <<g, r>> \in group_roles
            /\ <<r, p>> \in role_permissions}

Granted(u, o) == DirectPermissions(u, o) \cup RolePermissions(u, o) \cup GroupPermissions(u, o)

Matching(S, r, a) == {p \in S : permissions[p].resource = r /\ permissions[p].action = a}

Unconditional(S) == {p \in S : permissions[p].conditions = <<>>}

\* C1: a user whose is_admin flag is set is granted every (resource, action) in
\* every organization (also none) and under every context, whatever the store holds.
C1_AdminBypass ==
    \A u \in Users : users[u].is_admin =>
        \A r \in Resources, a \in Actions, o \in OrgArgs, c \in CheckContexts, n \in Nows,
           ord \in Orders :
            has_permission(UserObj(u), r, a, o, c, n, ord) = "True"

\* an administrator is granted reports:delete with no organization while no
\* permission on reports exists and the administrator holds no grant at all
C1_Witness ==
    /\ users["admin"].is_admin
    /\ \A p \in DOMAIN permissions : permissions[p].resource # "reports"
    /\ \A o \in Orgs : Granted("admin", o) = {}
    /\ Granted("bob", "o1") # {}
    /\ has_permission(UserObj("admin"), "reports", "delete", NoOrg, NoContext, Noon,
                      <<"p1", "p2">>) = "True"

\* C2: for a non-admin user and an organization, has_permission is true iff the
\* permissions granted to (user, organization) hold one on (resource, action)
\* whose conditions evaluate true; the answer is the same for every row order.
C2_DecisionIsExists ==
    \A u \in NonAdmins, o \in Orgs :
        LET granted == Granted(u, o)
        IN  \A r \in Resources, a \in Actions, c \in CheckContexts, n \in Nows :
                LET some == \E p \in Matching(granted, r, a) :
                                evaluate_conditions(permissions[p].conditions,
                                                    with_defaults(c, n), n) = "True"
                IN  \A ord \in Orders :
                        (has_permission(UserObj(u), r, a, o, c, n, ord) = "True") <=> some

\* bob holds two permissions on claims:read in o1; at 20:00 the conditional one
\* fails, the unconditional one grants, and claims:delete is denied
C2_Witness ==
    /\ Cardinality(Matching(Granted("bob", "o1"), "claims", "read")) = 2
    /\ \A ord \in Orders :
          /\ has_permission(UserObj("bob"), "claims", "read", "o1",
                            [NoContext EXCEPT !.current_time = TimeOf(20, 0, 0)], Noon, ord)
                = "True"
          /\ has_permission(UserObj("bob"), "claims", "delete", "o1", NoContext, Noon, ord)
                = "False"

\* has_permission answers `result` whatever the row order
Decides(u, o, r, a, result) ==
    \A ord \in Orders : has_permission(UserObj(u), r, a, o, NoContext, Evening, ord) = result

\* C3: for a non-admin user, a step that gives the user the first path (direct,
\* role or group) to an unconditional permission on (r, a) in O makes
\* has_permission true, and a step that removes the user's last path to any
\* permission on (r, a) in O makes it false again.
C3_GrantRevoke ==
    [][\A u \in NonAdmins, o \in Orgs :
          LET before == Granted(u, o)
              after == (Granted(u, o))'
          IN  (before # after \/ permissions # permissions') =>
                \A r \in Resources, a \in Actions :
                  /\ (Unconditional(Matching(before, r, a)) = {}
                      /\ (Unconditional(Matching(Granted(u, o), r, a)))' # {})
                     => (Decides(u, o, r, a, "True"))'
                  /\ (Matching(before, r, a) # {} /\ (Matching(Granted(u, o), r, a))' = {})
                     => (Decides(u, o, r, a, "False"))']_vars

\* bob is granted claims:read in o1 through the group path alone
C3_WitnessGrant ==
    /\ DirectPermissions("bob", "o1") = {}
    /\ RolePermissions("bob", "o1") = {}
    /\ "p1" \in GroupPermissions("bob", "o1")
    /\ Decides("bob", "o1", "claims", "read", "True")

\* C5: get_user_permissions_in_org returns exactly the union of the direct, the
\* role and the group permissions of (user, organization), each id once.
C5_ResolverIsUnion ==
    \A u \in Users, o \in Orgs, ord \in Orders :
        LET res == get_user_permissions_in_org(u, o, ord)
        IN  /\ Range(res) = Granted(u, o)
            /\ NoDuplicates(res)

\* one permission reaches bob in o1 both directly and through a role, another
\* user in the same organization has no assignment and resolves to nothing
C5_Witness ==
    /\ "p1" \in DirectPermissions("bob", "o1") \cap RolePermissions("bob", "o1")
    /\ get_user_permissions_in_org("bob", "o1", <<"p1", "p2">>) = <<"p1">>
    /\ get_user_permissions_in_org("admin", "o1", <<"p1", "p2">>) = <<>>

\* C6: the step that deletes permission P leaves no role_permissions and no
\* organization_user_permissions row that references P.
C6_DeleteLeavesNoEdge ==
    [][\A p \in PermIds :
          (p \in DOMAIN permissions /\ p \notin DOMAIN permissions')
          => /\ \A e \in role_permissions' : e[2] # p
             /\ \A e \in organization_user_permissions' : e[3] # p]_vars

(***************************************************************************)
(* SpecCond: evaluate_conditions applied to one conditions mapping and one *)
(* context drawn from the bounded sets below.                              *)
(***************************************************************************)
WellFormedTimes == {HHMM(0, 0), HHMM(9, 0), HHMM(17, 0), HHMM(23, 59)}

TimeStrings == WellFormedTimes \cup {HHMM(24, 0), HHMM(9, 60), BadText}

\* time_between values of arity 0 to 3
TimeLists ==
    { <<>> } \cup { <<s>> : s \in TimeStrings }
    \cup { <<s, e>> : s \in TimeStrings, e \in TimeStrings }
    \cup { <<s, e, HHMM(0, 0)>> : s \in WellFormedTimes, e \in WellFormedTimes }

SecondsOf(s) == s.h * 3600 + s.m * 60

\* the bounds of the well-formed strings, one second either side, and a
\* current_time that came as a JSON string
ContextTimes ==
    { [kind |-> "time", secs |-> t] :
        t \in { SecondsOf(s) + d : s \in WellFormedTimes, d \in {-1, 0, 1} } \cap 0..86399 }
    \cup { TimeOf(12, 0, 0), NoTime, [kind |-> "str", secs |-> 0] }

ListsOver(S) == UNION { [1..n -> S] : n \in 0..MaxList }

\* an address, a longer address it is a prefix of, a shorter prefix of it, the
\* CIDR block that contains it, and the empty string
IpStrings == {"10.0.0.1", "10.0.0.10", "10.0.0", "10.0.0.0/24", EmptyStr}

Departments == {"billing", "claims"}

\* one entry per condition key, for mappings of several keys
MixedItems ==
    { <<"time_between", <<HHMM(9, 0), HHMM(17, 0)>> >>, <<"ip_range", <<"10.0.0.1">> >>,
      <<"day_of_week", <<"Monday">> >>, <<"department", "billing">>, <<"foo", "bar">> }

\* mappings of two or three keys, in every iteration order
KeyOrders ==
    { t \in MixedItems \X MixedItems : t[1] # t[2] }
    \cup { t \in MixedItems \X MixedItems \X MixedItems :
              t[1] # t[2] /\ t[1] # t[3] /\ t[2] # t[3] }

MixedContexts ==
    { [current_time |-> t, ip_address |-> a, day_of_week |-> NoneStr, department |-> d] :
        t \in {TimeOf(12, 0, 0), TimeOf(20, 0, 0)}, a \in {"10.0.0.1", NoneStr},
        d \in {"billing", NoneStr} }

CondCases ==
    { << << <<"time_between", v>> >>, [NoContext EXCEPT !.current_time = t] >> :
        v \in TimeLists, t \in ContextTimes }
    \cup { << << <<"day_of_week", v>> >>, [NoContext EXCEPT !.day_of_week = d] >> :
             v \in ListsOver(DayStrings), d \in DayStrings \cup {NoneStr} }
    \cup { << << <<"ip_range", v>> >>, [NoContext EXCEPT !.ip_address = a] >> :
             v \in ListsOver(IpStrings), a \in IpStrings \cup {NoneStr} }
    \cup { << << <<"department", v>> >>, [NoContext EXCEPT !.department = d] >> :
             v \in Departments, d \in Departments \cup {NoneStr} }
    \cup { << c, NoContext >> : c \in { <<>>, << <<"foo", "bar">> >> } }
    \cup { << c, x >> : c \in KeyOrders, x \in MixedContexts }

InitCond ==
    /\ InitStore /\ ~fk_enforced
    /\ InitIdle
    /\ \E case \in CondCases : ev_conditions = case[1] /\ ev_context = case[2]
    /\ ev_now \in Nows
    /\ ev_result = "pending"
    /\ InitAnswers

evaluate ==
    /\ ev_result = "pending"
    /\ ev_result' = evaluate_conditions(ev_conditions, ev_context, ev_now)
    /\ UNCHANGED <<fk_enforced, entityVars, edgeVars, userVars, requests, last_check,
                   ev_conditions, ev_context, ev_now, guard, listing, audit_tasks,
                   audit_logs, orgVars>>

NextCond == evaluate

SpecCond == InitCond /\ [][NextCond]_vars

Evaluated(key) ==
    /\ ev_result # "pending"
    /\ Len(ev_conditions) = 1
    /\ ev_conditions[1][1] = key

\* C9 as claimed: a day_of_week condition passes iff the lower-cased context
\* day (the evaluation-moment day when the context has none) equals the
\* lower-cased form of some listed day.
C9_DayOfWeekCaseInsensitive ==
    Evaluated("day_of_week") =>
        LET days == ev_conditions[1][2]
            day == IF ev_context.day_of_week # NoneStr THEN ev_context.day_of_week
                   ELSE ev_now.day
        IN  (ev_result = "True") <=> \E i \in 1..Len(days) : lower(days[i]) = lower(day)

\* C10: a time_between condition with a well-formed pair passes iff
\* start <= t <= end, t being the context's current_time (the evaluation-moment
\* time when the context has none).
C10_TimeBetweenInclusive ==
    (/\ Evaluated("time_between")
     /\ Len(ev_conditions[1][2]) = 2
     /\ ev_conditions[1][2][1] \in WellFormedTimes
     /\ ev_conditions[1][2][2] \in WellFormedTimes
     /\ ev_context.current_time.kind # "str")
    => LET start == SecondsOf(ev_conditions[1][2][1])
           end == SecondsOf(ev_conditions[1][2][2])
           t == IF ev_context.current_time.kind = "time" THEN ev_context.current_time.secs
                ELSE ev_now.time.secs
       IN  (ev_result = "True") <=> (start <= t /\ t <= end)

\* ["09:00", "17:00"] evaluated at exactly 17:00:00 passes
C10_Witness ==
    /\ ev_conditions = << <<"time_between", <<HHMM(9, 0), HHMM(17, 0)>> >> >>
    /\ ev_context.current_time = TimeOf(17, 0, 0)
    /\ ev_result = "True"

RecognizedKeys == {"time_between", "ip_range", "day_of_week", "department"}

\* C13: evaluate_conditions is true for absent or empty conditions, and
\* otherwise true iff every entry with a recognized key passes, whatever
\* unknown keys are present and whatever order the entries come in.
C13_ImplicitAnd ==
    (ev_result # "pending" /\ ev_context.current_time.kind # "str") =>
        ((ev_result = "True") <=>
            \A i \in 1..Len(ev_conditions) :
                ev_conditions[i][1] \in RecognizedKeys
                => check_condition(ev_conditions[i][1], ev_conditions[i][2], ev_context,
                                   ev_now) = "True")

\* an unknown key and a passing time_between come before a failing department
C13_Witness ==
    /\ ev_conditions = << <<"foo", "bar">>, <<"time_between", <<HHMM(9, 0), HHMM(17, 0)>> >>,
                          <<"department", "billing">> >>
    /\ ev_context.current_time = TimeOf(12, 0, 0)
    /\ ev_context.department = NoneStr
    /\ ev_result = "False"

\* C14: an ip_range condition passes iff the context's ip_address is present,
\* not empty, and equal to one of the listed entries.
C14_IpRangeLiteral ==
    Evaluated("ip_range") =>
        LET listed == ev_conditions[1][2]
            ip == ev_context.ip_address
        IN  (ev_result = "True") <=>
                (ip # NoneStr /\ ip # EmptyStr /\ \E i \in 1..Len(listed) : listed[i] = ip)

\* 10.0.0.1 fails against a longer address it is a prefix of and the CIDR
\* block that contains it
C14_Witness ==
    /\ ev_conditions = << <<"ip_range", <<"10.0.0.10", "10.0.0.0/24">> >> >>
    /\ ev_context.ip_address = "10.0.0.1"
    /\ ev_result = "False"

(***************************************************************************)
(* SpecOrg: organization membership, the current organization and the      *)
(* decision POST /permissions/check returns.                               *)
(***************************************************************************)
ClientHost == "10.0.0.1"

add_user_to_organization(admin, organization_id, user_id) ==
    /\ users[admin].is_admin
    /\ organization_id \in Orgs
    /\ user_id \in Users
    /\ <<user_id, organization_id>> \notin user_organizations
    /\ user_organizations' = user_organizations \cup {<<user_id, organization_id>>}
    /\ UNCHANGED <<fk_enforced, entityVars, edgeVars, users, requests, last_check, condVars>>

remove_user_from_organization(admin, organization_id, user_id) ==
    /\ users[admin].is_admin
    /\ organization_id \in Orgs
    /\ <<user_id, organization_id>> \in user_organizations
    /\ user_organizations' = user_organizations \ {<<user_id, organization_id>>}
    /\ UNCHANGED <<fk_enforced, entityVars, edgeVars, users, requests, last_check, condVars>>

switch_organization(user, organization_id) ==
    /\ <<user, organization_id>> \in user_organizations
    /\ users' = [users EXCEPT ![user].current_organization_id = organization_id]
    /\ UNCHANGED <<fk_enforced, entityVars, edgeVars, user_organizations, requests,
                   last_check, condVars>>

check_permission(current_user, resource, action, organization_id, body_context, now, ord) ==
    LET context == [body_context EXCEPT
                       !.ip_address = IF @ = NoneStr THEN ClientHost ELSE @]
        org_id == IF organization_id # NoOrg THEN organization_id
                  ELSE users[current_user].current_organization_id
        run == has_permission_run(UserObj(current_user), resource, action, org_id, context,
                                  now, ord)
    IN  /\ last_check' =
              [user |-> current_user, resource |-> resource, action |-> action,
               organization_id |-> organization_id,
               current_organization_id |-> users[current_user].current_organization_id,
               result |-> run.result, resolved |-> run.resolved]
        /\ UNCHANGED <<fk_enforced, entityVars, edgeVars, userVars, requests, condVars>>

InitOrg == InitStore /\ ~fk_enforced /\ InitIdle /\ InitCondIdle

NextOrg ==
    \/ \E admin \in Users, o \in Orgs, u \in Grantees : add_user_to_organization(admin, o, u)
    \/ \E admin \in Users, o \in Orgs, u \in Grantees :
          remove_user_from_organization(admin, o, u)
    \/ \E u \in Grantees, o \in Orgs : switch_organization(u, o)
    \/ \E actor \in Users, o \in Orgs, u \in Grantees, p \in PermIds :
          assign_permission_to_user(actor, o, u, p)
    \/ \E u \in Users, r \in Resources, a \in Actions, o \in OrgArgs, c \in CheckContexts,
          n \in Nows, ord \in Orders : check_permission(u, r, a, o, c, n, ord)

SpecOrg == InitOrg /\ [][NextOrg]_vars

\* C4: for a non-admin user and no organization_id argument, has_permission
\* answers false, raising nothing and reading no grant relation, when the user
\* has no current organization, and decides in the user's current organization
\* when there is one; POST /check answers accordingly.
C4_FailClosedOnMissingOrg ==
    /\ \A u \in NonAdmins, r \in Resources, a \in Actions, c \in CheckContexts, n \in Nows,
          ord \in Orders :
            LET user == UserObj(u)
                run == has_permission_run(user, r, a, NoOrg, c, n, ord)
            IN  IF user.current_organization_id = NoOrg
                THEN run = [result |-> "False", resolved |-> NoOrg]
                ELSE run = has_permission_run(user, r, a, user.current_organization_id, c, n,
                                              ord)
                     /\ run.resolved = user.current_organization_id
    /\ (/\ last_check.result # "none"
        /\ ~users[last_check.user].is_admin
        /\ last_check.organization_id = NoOrg)
       => IF last_check.current_organization_id = NoOrg
          THEN last_check.result = "False" /\ last_check.resolved = NoOrg
          ELSE last_check.resolved = last_check.current_organization_id

\* bob holds claims:read directly in o1, has selected no organization, and
\* POST /check without organization_id denied claims:read without resolving
C4_Witness ==
    /\ <<"o1", "bob", "p1">> \in organization_user_permissions
    /\ users["bob"].current_organization_id = NoOrg
    /\ last_check = [user |-> "bob", resource |-> "claims", action |-> "read",
                     organization_id |-> NoOrg, current_organization_id |-> NoOrg,
                     result |-> "False", resolved |-> NoOrg]
    /\ has_permission(UserObj("bob"), "claims", "read", "o1", NoContext, Noon,
                      <<"p1", "p2">>) = "True"

(***************************************************************************)
(* SpecAssign: two assignment requests in flight.  A handler awaits the    *)
(* existence lookup and then the insert and commit, so another request can *)
(* run between the two.  The requests name rows that exist.                *)
(***************************************************************************)
AssignRows(kind) ==
    CASE kind = "user_role" -> {<<o, u, r>> : o \in Orgs, u \in Grantees, r \in RoleIds}
      [] kind = "user_permission" ->
            {<<o, u, p>> : o \in Orgs, u \in Grantees, p \in PermIds}
      [] kind = "user_group" -> {<<o, u, g>> : o \in Orgs, u \in Grantees, g \in GroupIds}
      [] kind = "group_role" -> {<<g, r>> : g \in GroupIds, r \in RoleIds}
      [] kind = "role_permission" -> {<<r, p>> : r \in RoleIds, p \in PermIds}

SuccessOutcomes == {"assigned", "already"}

SameGrant(t, kind, row) == requests[t].kind = kind /\ requests[t].row = row

\* a plausible slip: add_task placed before the early returns
audit_scheduled_on_every_answer(outcome) == outcome # "none"

\* background_tasks.add_task(create_audit_log, ...) stands after the insert
\* and `await db.commit()`: the early return and the raised errors skip it
audit_scheduled(outcome) == outcome = "assigned"

\* the background tasks after request s ended in `outcome`
add_task(s, kind, row, outcome) ==
    IF audit_scheduled(outcome)
    THEN audit_tasks \cup {[request |-> s, action |-> "assign", kind |-> kind, row |-> row]}
    ELSE audit_tasks

\* the handler up to the existence lookup; assign_permission_to_role looks the
\* role and the permission up first (404)
assign_check(s, kind, row) ==
    LET found == kind = "role_permission"
                 => (row[1] \in DOMAIN roles /\ row[2] \in DOMAIN permissions)
        existing == already_assigned(kind, row)
        outcome == IF ~found THEN "not_found" ELSE IF existing THEN "already" ELSE "none"
    IN  /\ requests[s].pc = "idle"
        /\ requests' = [requests EXCEPT ![s] =
              [pc |-> IF found /\ ~existing THEN "checked" ELSE "done",
               kind |-> kind, row |-> row,
               outcome |-> outcome,
               after |-> {t \in Requests \ {s} :
                            requests[t].pc = "done" /\ SameGrant(t, kind, row)},
               overlap |-> {t \in Requests \ {s} :
                              requests[t].pc = "checked" /\ SameGrant(t, kind, row)}]]
        /\ audit_tasks' = add_task(s, kind, row, outcome)
        /\ UNCHANGED <<fk_enforced, entityVars, edgeVars, userVars, last_check,
                       ev_conditions, ev_context, ev_now, ev_result, guard, listing,
                       audit_logs, orgVars>>

\* the insert and the commit; an IntegrityError is not caught
assign_insert(s) ==
    LET kind == requests[s].kind
        row == requests[s].row
        outcome == IF insert_accepted(kind, row) THEN "assigned" ELSE "IntegrityError"
    IN  /\ requests[s].pc = "checked"
        /\ IF outcome = "assigned" THEN InsertRow(kind, row) ELSE UNCHANGED edgeVars
        /\ requests' = [requests EXCEPT ![s].pc = "done", ![s].outcome = outcome]
        /\ audit_tasks' = add_task(s, kind, row, outcome)
        /\ UNCHANGED <<fk_enforced, entityVars, userVars, last_check, ev_conditions,
                       ev_context, ev_now, ev_result, guard, listing, audit_logs, orgVars>>

InitAssign ==
    /\ fk_enforced \in BOOLEAN
    /\ permissions = [p \in PermIds |->
                         IF p = "p1" THEN SeededPermission
                         ELSE [name |-> "claims:read_office", resource |-> "claims",
                               action |-> "read", conditions |-> OfficeHours]]
    /\ roles = [r \in RoleIds |-> SeededRole]
    /\ groups = [g \in GroupIds |-> [organization_id |-> "o1"]]
    /\ retired = {}
    /\ role_permissions = {<<"r1", "p1">>}
    /\ organization_user_roles = {}
    /\ organization_user_permissions = {}
    /\ organization_user_groups = {}
    /\ group_roles = {}
    /\ users = [u \in Users |-> [is_admin |-> (u = "admin"),
                                 current_organization_id |-> NoOrg]]
    /\ user_organizations = {<<"admin", o>> : o \in Orgs}
    /\ InitIdle
    /\ InitCondIdle

NextAssign ==
    \/ \E s \in Requests, kind \in AssignKinds : \E row \in AssignRows(kind) :
          assign_check(s, kind, row)
    \/ \E s \in Requests : assign_insert(s)

SpecAssign == InitAssign /\ [][NextAssign]_vars

\* C7: when an assignment request begins after an earlier request for the same
\* grant has finished, the table holds the grant's row (once: the whole row is
\* the key), the earlier request ended in success and the later one ended in
\* success as a no-op; for all five assignment routes.
C7_SequentialAssignIdempotent ==
    \A s \in Requests : \A t \in requests[s].after :
        requests[s].pc = "done" =>
            /\ requests[s].row \in Table(requests[s].kind)
            /\ requests[t].outcome \in SuccessOutcomes
            /\ requests[s].outcome = "already"

\* assign_role_to_user(o1, bob, r1) inserted the row, the same call made
\* afterwards found it and left one row
C7_Witness ==
    /\ requests["A"] = [pc |-> "done", kind |-> "user_role", row |-> <<"o1", "bob", "r1">>,
                        outcome |-> "assigned", after |-> {}, overlap |-> {}]
    /\ requests["B"] = [pc |-> "done", kind |-> "user_role", row |-> <<"o1", "bob", "r1">>,
                        outcome |-> "already", after |-> {"A"}, overlap |-> {}]
    /\ organization_user_roles = {<<"o1", "bob", "r1">>}

\* C8 as claimed: when a request ran its existence check while another request
\* for the same grant had checked and not yet inserted, the table ends with the
\* grant's row and both requests end in success.
C8_ConcurrentAssignBothSucceed ==
    \A s \in Requests : \A t \in requests[s].overlap :
        (requests[s].pc = "done" /\ requests[t].pc = "done") =>
            /\ requests[s].row \in Table(requests[s].kind)
            /\ requests[s].outcome \in SuccessOutcomes
            /\ requests[t].outcome \in SuccessOutcomes

(***************************************************************************)
(* SpecDecide: one call of POST /permissions/check, of a                   *)
(* require_any_permission dependency or of GET /users/{user_id}/permissions *)
(* against a store in which one user holds up to two permissions directly  *)
(* in o1, the first with well-formed, malformed or unknown conditions.     *)
(***************************************************************************)
\* context = {current_time, ip_address, day_of_week} built from the request
request_context(now, client_host) ==
    [current_time |-> now.time, ip_address |-> client_host,
     day_of_week |-> lower(now.day), department |-> NoneStr]

\* a plausible slip: the first listed pair decides alone
any_permission_first_pair_only(pairs, i, user, org_id, context, now, ord) ==
    IF i > Len(pairs) THEN [outcome |-> "403", calls |-> i - 1]
    ELSE IF has_permission(user, pairs[i][1], pairs[i][2], org_id, context, now, ord) = "True"
         THEN [outcome |-> "user", calls |-> i]
         ELSE [outcome |-> "403", calls |-> i]

\* for resource, action in permissions: if await has_permission(...): return
\* current_user; `calls` counts the has_permission calls made
RECURSIVE any_permission_loop(_, _, _, _, _, _, _)
any_permission_loop(pairs, i, user, org_id, context, now, ord) ==
    IF i > Len(pairs) THEN [outcome |-> "403", calls |-> i - 1]
    ELSE LET r == has_permission(user, pairs[i][1], pairs[i][2], org_id, context, now, ord)
         IN  IF r = "True" THEN [outcome |-> "user", calls |-> i]
             ELSE IF r = "False"
                  THEN any_permission_loop(pairs, i + 1, user, org_id, context, now, ord)
                  ELSE [outcome |-> r, calls |-> i]

require_any_permission(pairs, organization_id, current_user, now, ord) ==
    LET context == request_context(now, ClientHost)
        org_id == IF organization_id # NoOrg THEN organization_id
                  ELSE users[current_user].current_organization_id
        run == any_permission_loop(pairs, 1, UserObj(current_user), org_id, context, now, ord)
    IN  /\ guard' = [user |-> current_user, pairs |-> pairs,
                     organization_id |-> organization_id, now |-> now,
                     outcome |-> run.outcome, calls |-> run.calls]
        /\ UNCHANGED <<fk_enforced, entityVars, edgeVars, userVars, requests, last_check,
                       ev_conditions, ev_context, ev_now, ev_result, listing, audit_tasks,
                       audit_logs, orgVars>>

\* a plausible slip: the caller is never compared with user_id
may_view_anyone(current_user, user_id) == TRUE

\* not (user_id != current_user.id and not current_user.is_admin)
may_view(current_user, user_id) == user_id = current_user \/ users[current_user].is_admin

get_user_permissions(current_user, user_id, organization_id, ord) ==
    LET org_id == IF organization_id # NoOrg THEN organization_id
                  ELSE users[current_user].current_organization_id
        status == IF ~may_view(current_user, user_id) THEN "403"
                  ELSE IF org_id = NoOrg THEN "400" ELSE "200"
    IN  /\ listing' = [caller |-> current_user, user_id |-> user_id,
                       organization_id |-> org_id, status |-> status,
                       all_permissions |->
                           IF status = "200"
                           THEN get_user_permissions_in_org(user_id, org_id, ord)
                           ELSE <<>>]
        /\ UNCHANGED <<fk_enforced, entityVars, edgeVars, userVars, requests, last_check,
                       ev_conditions, ev_context, ev_now, ev_result, guard, audit_tasks,
                       audit_logs, orgVars>>

\* conditions of the first permission: none, well-formed, time_between values
\* of arity 0, 1 and 3 or with a string strptime rejects, and unknown keys
DecideConditions ==
    { <<>>, OfficeHours,
      << <<"time_between", <<>> >> >>,
      << <<"time_between", <<HHMM(9, 0)>> >> >>,
      << <<"time_between", <<BadText, HHMM(17, 0)>> >> >>,
      << <<"time_between", <<HHMM(9, 0), HHMM(24, 0)>> >> >>,
      << <<"time_between", <<HHMM(9, 0), HHMM(17, 0), HHMM(0, 0)>> >> >>,
      << <<"foo", "bar">> >>,
      << <<"foo", "bar">>, <<"custom_rule", "x">> >> }

SecondPermissions ==
    { [name |-> "claims:read_all", resource |-> "claims", action |-> "read",
       conditions |-> <<>>],
      [name |-> "reports:read", resource |-> "reports", action |-> "read",
       conditions |-> <<>>] }

PairLists ==
    LET Pairs == {<<"claims", "read">>, <<"claims", "delete">>, <<"reports", "read">>}
    IN  { <<>> } \cup { <<x>> : x \in Pairs } \cup (Pairs \X Pairs)

InitDecide ==
    /\ fk_enforced = FALSE
    /\ \E conds \in DecideConditions, ids \in {{"p1"}, PermIds}, second \in SecondPermissions :
          permissions = [p \in ids |->
                            IF p = "p1"
                            THEN [name |-> "claims:read", resource |-> "claims",
                                  action |-> "read", conditions |-> conds]
                            ELSE second]
    /\ roles = [r \in {"r1"} |-> SeededRole]
    /\ groups = [g \in {} |-> [organization_id |-> NoOrg]]
    /\ retired = {}
    /\ role_permissions = {}
    /\ organization_user_roles = {}
    /\ \E holder \in Users, held \in SUBSET DOMAIN permissions :
          organization_user_permissions = {<<"o1", holder, p>> : p \in held}
    /\ organization_user_groups = {}
    /\ group_roles = {}
    /\ \E current \in {NoOrg, "o1"} :
          /\ users = [u \in Users |->
                        [is_admin |-> (u = "admin"),
                         current_organization_id |-> IF u = "bob" THEN current ELSE NoOrg]]
          /\ user_organizations =
                {<<"admin", o>> : o \in Orgs}
                \cup (IF current = NoOrg THEN {} ELSE {<<"bob", current>>})
    /\ InitIdle
    /\ InitCondIdle

Unanswered ==
    last_check.result = "none" /\ guard.outcome = "none" /\ listing.status = "none"

NextDecide ==
    \/ \E u \in Users, r \in Resources, a \in Actions, o \in OrgArgs, c \in CheckContexts,
          n \in Nows, ord \in Orders : Unanswered /\ check_permission(u, r, a, o, c, n, ord)
    \/ \E pairs \in PairLists, o \in OrgArgs, u \in Users, n \in Nows, ord \in Orders :
          Unanswered /\ require_any_permission(pairs, o, u, n, ord)
    \/ \E caller \in Users, u \in Users, o \in OrgArgs, ord \in Orders :
          Unanswered /\ get_user_permissions(caller, u, o, ord)

SpecDecide == InitDecide /\ [][NextDecide]_vars

\* every context the decision properties range over
DecideContexts ==
    CheckContexts \cup MixedContexts
    \cup { [NoContext EXCEPT !.current_time = [kind |-> "str", secs |-> 0]] }

\* a single time_between entry whose value has an arity other than two or
\* holds, among its first two entries, a string that is not a %H:%M time
Malformed(conditions) ==
    /\ Len(conditions) = 1
    /\ conditions[1][1] = "time_between"
    /\ LET v == conditions[1][2]
       IN  Len(v) # 2 \/ \E i \in 1..Len(v) : i <= 2 /\ ~strptime_ok(v[i])

UnknownOnly(conditions) ==
    /\ conditions # <<>>
    /\ \A i \in 1..Len(conditions) : conditions[i][1] \notin RecognizedKeys

\* C11 as claimed: when POST /check decides for a non-admin user, a matching
\* permission with a malformed time_between counts as failed: the answer is
\* false when every matching permission the user holds is malformed, nothing
\* is raised, and the answer is true when the user also holds a matching
\* permission without conditions.
C11_MalformedFailsClosed ==
    (last_check.result # "none" /\ last_check.resolved # NoOrg) =>
        LET held == Matching(Granted(last_check.user, last_check.resolved),
                             last_check.resource, last_check.action)
            malformed == {p \in held : Malformed(permissions[p].conditions)}
        IN  /\ last_check.result \in {"True", "False"}
            /\ (held # {} /\ malformed = held) => last_check.result = "False"
            /\ (malformed # {} /\ Unconditional(held) # {}) => last_check.result = "True"

\* C12: a permission whose conditions hold unknown keys only evaluates true
\* under every context and grants its (resource, action) to a holder.
C12_UnknownKeysPass ==
    \A u \in NonAdmins, o \in Orgs :
        \A p \in Granted(u, o) :
            UnknownOnly(permissions[p].conditions) =>
                \A c \in DecideContexts, n \in Nows :
                    /\ evaluate_conditions(permissions[p].conditions, c, n) = "True"
                    /\ \A ord \in Orders :
                          has_permission(UserObj(u), permissions[p].resource,
                                         permissions[p].action, o, c, n, ord) = "True"

\* bob's only permission carries {"foo": "bar"} and POST /check granted claims:read
C12_Witness ==
    /\ Granted("bob", "o1") = {"p1"}
    /\ permissions["p1"].conditions = << <<"foo", "bar">> >>
    /\ last_check.user = "bob"
    /\ last_check.resource = "claims" /\ last_check.action = "read"
    /\ last_check.organization_id = "o1"
    /\ last_check.result = "True"

\* has_permission for the i-th pair of the answered dependency
GuardHolds(i, ord) ==
    has_permission(UserObj(guard.user), guard.pairs[i][1], guard.pairs[i][2],
                   effective_organization(UserObj(guard.user), guard.organization_id),
                   request_context(guard.now, ClientHost), guard.now, ord) = "True"

\* C15: the dependency returns the current user iff has_permission holds for
\* some listed pair; it stops at the first such pair in list order, and answers
\* 403 after trying every pair when none holds (at once for an empty list).
C15_RequireAny ==
    guard.outcome # "none" =>
        \A ord \in Orders :
            /\ guard.outcome \in {"user", "403"}
            /\ (guard.outcome = "user") <=> \E i \in 1..Len(guard.pairs) : GuardHolds(i, ord)
            /\ \A i \in 1..Len(guard.pairs) : i < guard.calls => ~GuardHolds(i, ord)
            /\ guard.outcome = "user" => GuardHolds(guard.calls, ord)
            /\ guard.outcome = "403" => guard.calls = Len(guard.pairs)

\* bob lacks the first listed pair, holds the second, and is let through
\* after two has_permission calls
C15_Witness ==
    /\ guard.user = "bob"
    /\ guard.pairs = << <<"claims", "delete">>, <<"claims", "read">> >>
    /\ guard.outcome = "user"
    /\ guard.calls = 2

\* C20: GET /users/{user_id}/permissions returns permissions only to the user
\* named or to an administrator; any other caller gets 403 and no permission.
C20_AdminOrSelf ==
    listing.status # "none" =>
        /\ listing.status = "200"
           => (listing.caller = listing.user_id \/ users[listing.caller].is_admin)
        /\ (listing.caller # listing.user_id /\ ~users[listing.caller].is_admin)
           => (listing.status = "403" /\ listing.all_permissions = <<>>)

\* bob asks for the permissions of admin, who holds one in o1, and is denied
C20_Witness ==
    /\ listing.caller = "bob"
    /\ listing.user_id = "admin"
    /\ Granted("admin", "o1") # {}
    /\ listing.status = "403"
    /\ listing.all_permissions = <<>>

\* C16 as claimed: every row of organization_user_roles,
\* organization_user_permissions and organization_user_groups names a user who
\* is a member of the row's organization.
C16_AssignmentsNameMembers ==
    \A e \in organization_user_roles \cup organization_user_permissions
             \cup organization_user_groups :
        <<e[2], e[1]>> \in user_organizations

\* C18 as claimed: a step never stores an assignment row that names a role,
\* permission, group, user or organization that does not exist.
C18_AssignNamesExisting ==
    [][\A kind \in AssignKinds :
          \A row \in (Table(kind))' \ Table(kind) : fk_ok(kind, row)]_vars

(***************************************************************************)
(* SpecCreate: POST /permissions and POST /roles as requests.  A handler   *)
(* adds the object to its session, awaits the commit (the INSERT, on which *)
(* the backend checks the UNIQUE name), answers, and leaves the audit      *)
(* write to a background task that runs after the answer.                  *)
(***************************************************************************)
CreateKinds == {"permission", "role"}

\* ids generate_ulid() gives to the rows the requests create
CreatedIds(kind) == IF kind = "permission" THEN {"p2", "p3"} ELSE {"r2"}

CreateTable(kind) == IF kind = "permission" THEN permissions ELSE roles

\* request bodies: the seeded names again, and new names
CreatePayloads(kind) ==
    IF kind = "permission"
    THEN PermissionPayloads
         \cup { [name |-> "claims:read", resource |-> "claims", action |-> "delete",
                 conditions |-> <<>>] }
    ELSE { [name |-> n, organization_id |-> o] :
             n \in {"claims_viewer", "auditor"}, o \in {NoOrg, "o1"} }

\* a plausible slip: no UNIQUE constraint on name
name_never_in_use(table, name) == FALSE

\* the UNIQUE constraint on name finds a row
name_in_use(table, name) == \E x \in DOMAIN table : table[x].name = name

\* get_current_admin_user for permissions; for a role of an organization the
\* creator is an administrator or a member of it
may_create(actor, kind, payload) ==
    IF kind = "permission" THEN users[actor].is_admin
    ELSE \/ payload.organization_id = NoOrg
         \/ users[actor].is_admin
         \/ <<actor, payload.organization_id>> \in user_organizations

\* the handler up to db.add
create_add(s, actor, kind, payload) ==
    /\ requests[s].pc = "idle"
    /\ requests' = [requests EXCEPT ![s] =
          [pc |-> IF may_create(actor, kind, payload) THEN "added" ELSE "done",
           kind |-> kind, row |-> payload,
           outcome |-> IF may_create(actor, kind, payload) THEN "none" ELSE "403",
           after |-> {},
           overlap |-> {t \in Requests \ {s} :
                          /\ requests[t].pc = "added"
                          /\ requests[t].kind = kind
                          /\ requests[t].row.name = payload.name}]]
    /\ UNCHANGED <<fk_enforced, entityVars, edgeVars, userVars, last_check, condVars>>

\* await db.commit(): the row is stored and the audit write queued, or the
\* IntegrityError is caught, the session rolled back and 409 answered
create_commit(s) ==
    LET kind == requests[s].kind
        payload == requests[s].row
    IN  /\ requests[s].pc = "added"
        /\ IF name_in_use(CreateTable(kind), payload.name)
           THEN /\ requests' = [requests EXCEPT ![s].pc = "done", ![s].outcome = "409"]
                /\ UNCHANGED <<permissions, roles, audit_tasks>>
           ELSE \E id \in FreshIds(CreatedIds(kind), CreateTable(kind)) :
                  /\ permissions' = IF kind = "permission"
                                    THEN Put(permissions, id, payload) ELSE permissions
                  /\ roles' = IF kind = "role" THEN Put(roles, id, payload) ELSE roles
                  /\ requests' = [requests EXCEPT ![s].pc = "done", ![s].outcome = "201"]
                  /\ audit_tasks' = audit_tasks
                        \cup { [action |-> "create", resource_type |-> kind,
                                resource_id |-> id] }
        /\ UNCHANGED <<fk_enforced, groups, retired, edgeVars, userVars, last_check,
                       ev_conditions, ev_context, ev_now, ev_result, guard, listing,
                       audit_logs, orgVars>>

\* a plausible slip: a failed audit write takes the audited row with it
failed_audit_undoes(table, resource_id) ==
    [x \in DOMAIN table \ {resource_id} |-> table[x]]

\* the table after create_audit_log failed: its commit is a transaction of
\* its own, the audited row was committed before
failed_audit_keeps(table, resource_id) == table

\* the background task: create_audit_log commits the AuditLog row, or fails
audit_write(task, ok) ==
    /\ task \in audit_tasks
    /\ audit_tasks' = audit_tasks \ {task}
    /\ audit_logs' = IF ok THEN audit_logs \cup {task} ELSE audit_logs
    /\ permissions' = IF ok THEN permissions
                      ELSE failed_audit_keeps(permissions, task.resource_id)
    /\ roles' = IF ok THEN roles ELSE failed_audit_keeps(roles, task.resource_id)
    /\ UNCHANGED <<fk_enforced, groups, retired, edgeVars, userVars, requests, last_check,
                   ev_conditions, ev_context, ev_now, ev_result, guard, listing,
                   orgVars>>

InitCreate == InitStore /\ ~fk_enforced /\ InitIdle /\ InitCondIdle

NextCreate ==
    \/ \E s \in Requests, actor \in Users, kind \in CreateKinds :
          \E payload \in CreatePayloads(kind) : create_add(s, actor, kind, payload)
    \/ \E s \in Requests : create_commit(s)
    \/ \E task \in audit_tasks, ok \in BOOLEAN : audit_write(task, ok)

SpecCreate == InitCreate /\ [][NextCreate]_vars

UniqueNames(table) ==
    \A x, y \in DOMAIN table : table[x].name = table[y].name => x = y

\* C17: no two permissions and no two roles ever share a name, and a create
\* whose name is in use when it commits answers 409 and leaves both tables as
\* they were, also when two creates of the same name are in flight together.
C17_UniqueNames ==
    /\ [](UniqueNames(permissions) /\ UniqueNames(roles))
    /\ [][\A s \in Requests :
             (requests[s].pc = "added" /\ requests'[s].pc = "done"
              /\ \E x \in DOMAIN CreateTable(requests[s].kind) :
                    CreateTable(requests[s].kind)[x].name = requests[s].row.name)
             => (requests'[s].outcome = "409" /\ UNCHANGED <<permissions, roles>>)]_vars

\* two creates of the role "auditor" were in flight together: one was
\* stored, the other answered 409
C17_Witness ==
    /\ requests["A"].kind = "role" /\ requests["A"].row.name = "auditor"
    /\ requests["A"].pc = "done" /\ requests["A"].outcome = "201"
    /\ requests["B"].kind = "role" /\ requests["B"].row.name = "auditor"
    /\ requests["B"].pc = "done" /\ requests["B"].outcome = "409"
    /\ requests["B"].overlap = {"A"}
    /\ Cardinality({r \in DOMAIN roles : roles[r].name = "auditor"}) = 1

C21_NoOrgListsNothing ==
    /\ \A u \in Users, ord \in Orders : get_user_permissions_in_org(u, NoOrg, ord) = <<>>
    /\ (listing.status \notin {"none", "403"} /\ listing.organization_id = NoOrg)
       => (listing.status = "200" /\ listing.all_permissions = <<>>)

(***************************************************************************)
(* SpecSelf: the store under the routes a non-admin user may call.  bob is *)
(* the only caller; he is a member of o1 and starts without any grant.     *)
(* The routes left out (create / update / delete permission) answer 403    *)
(* to him.                                                                 *)
(***************************************************************************)
InitSelf ==
    /\ fk_enforced \in BOOLEAN
    /\ \E conds \in {<<>>, OfficeHours} :
          permissions = [p \in {"p1"} |-> [SeededPermission EXCEPT !.conditions = conds]]
    /\ roles = [r \in {"r1"} |-> SeededRole]
    /\ groups = [g \in {} |-> [organization_id |-> NoOrg]]
    /\ retired = {}
    /\ role_permissions = {<<"r1", "p1">>}
    /\ organization_user_roles = {}
    /\ organization_user_permissions = {}
    /\ organization_user_groups = {}
    /\ group_roles = {}
    /\ users = [u \in Users |-> [is_admin |-> (u = "admin"),
                                 current_organization_id |-> NoOrg]]
    /\ user_organizations = {<<"admin", o>> : o \in Orgs} \cup {<<"bob", "o1">>}
    /\ InitIdle
    /\ InitCondIdle

NextSelf ==
    \/ \E o \in Orgs, u \in Grantees, r \in RoleIds : assign_role_to_user("bob", o, u, r)
    \/ \E o \in Orgs, u \in Grantees, p \in PermIds : assign_permission_to_user("bob", o, u, p)
    \/ \E g \in GroupIds, o \in Orgs, u \in Grantees : add_user_to_group("bob", g, o, u)
    \/ \E g \in GroupIds, r \in RoleIds : assign_role_to_group("bob", g, r)
    \/ \E r \in RoleIds, p \in PermIds : assign_permission_to_role("bob", r, p)
    \/ \E r \in RoleIds, p \in PermIds : remove_permission_from_role("bob", r, p)
    \/ \E o \in Orgs : create_group("bob", o)
    \/ \E g \in GroupIds : delete_group("bob", g)
    \/ \E r \in RoleIds : delete_role("bob", r)

SpecSelf == InitSelf /\ [][NextSelf]_vars

\* C22: a non-admin user who starts without a grant in O never reaches, by
\* the routes open to that user, a state where has_permission is true for
\* some (resource, action) in O.
C22_NoSelfEscalation ==
    \A o \in Orgs, r \in Resources, a \in Actions, ord \in Orders :
        has_permission(UserObj("bob"), r, a, o, NoContext, Noon, ord) # "True"

\* the organization-scoped rows keyed by organization o
KeyedBy(o) ==
    <<{e \in organization_user_roles : e[1] = o},
      {e \in organization_user_permissions : e[1] = o},
      {e \in organization_user_groups : e[1] = o}>>

\* C23: for a non-admin user the decision for organization O2 is the same in
\* two stores that differ only in rows keyed by another organization: a step
\* that leaves the rows keyed by O2, the permissions and the global
\* role-permission and group-role edges as they were leaves every
\* has_permission(user, r, a, O2, ctx) as it was.
C23_TenantIsolation ==
    [][\A o2 \in Orgs :
          (/\ KeyedBy(o2)' = KeyedBy(o2)
           /\ UNCHANGED <<permissions, role_permissions, group_roles, users>>)
          => \A u \in NonAdmins, r \in Resources, a \in Actions, c \in CheckContexts,
                ord \in Orders :
                (has_permission(UserObj(u), r, a, o2, c, Noon, ord))'
                = has_permission(UserObj(u), r, a, o2, c, Noon, ord)]_vars

\* bob is granted claims:read in o1 by rows keyed by o1 only, and o2 decides
\* as before
C23_Witness ==
    /\ KeyedBy("o2") = <<{}, {}, {}>>
    /\ KeyedBy("o1") # <<{}, {}, {}>>
    /\ permissions["p1"].conditions = <<>>
    /\ Decides("bob", "o1", "claims", "read", "True")
    /\ Decides("bob", "o2", "claims", "read", "False")

\* C24: every organization_user_groups row (organization, user, group) of an
\* existing group carries the group's own organization_id.
C24_GroupRowsInGroupOrg ==
    \A e \in organization_user_groups :
        e[3] \in DOMAIN groups => groups[e[3]].organization_id = e[1]

\* C25: every user's current_organization_id is null or names an organization
\* the user is a member of, also after remove_user_from_organization.
C25_CurrentOrgIsMembership ==
    \A u \in Users :
        \/ users[u].current_organization_id = NoOrg
        \/ <<u, users[u].current_organization_id>> \in user_organizations

(***************************************************************************)
(* SpecAdmin: PATCH /users/{user_id}/admin.  A request runs in three       *)
(* steps, one per await: the get_current_admin_user dependency, the SELECT *)
(* of the target with the self check, and the commit.  Requests of         *)
(* different callers interleave between the steps.                         *)
(***************************************************************************)
UserIds == Users \cup {"nobody"}

\* Depends(get_current_admin_user): 403 unless the caller's row says is_admin
get_current_admin_user(s, caller, user_id) ==
    /\ toggles[s].pc = "idle"
    /\ toggles' = [toggles EXCEPT ![s] =
                      IF users[caller].is_admin
                      THEN [pc |-> "authenticated", admin |-> caller, user_id |-> user_id,
                            is_admin |-> FALSE, outcome |-> "none"]
                      ELSE [NoToggle EXCEPT !.admin = caller, !.user_id = user_id,
                                            !.outcome = "403"]]
    /\ UNCHANGED <<fk_enforced, entityVars, edgeVars, userVars, requests, last_check,
                   ev_conditions, ev_context, ev_now, ev_result, guard, listing, audit_tasks,
                   audit_logs, access_requests, reviews, addresses>>

\* select(User), 404, the self check, and user.is_admin = not user.is_admin
\* on the loaded object
toggle_admin_status_select(s) ==
    LET t == toggles[s]
    IN  /\ t.pc = "authenticated"
        /\ toggles' = [toggles EXCEPT ![s] =
                          IF t.user_id \notin DOMAIN users
                          THEN [t EXCEPT !.pc = "idle", !.outcome = "404"]
                          ELSE IF t.user_id = t.admin
                          THEN [t EXCEPT !.pc = "idle", !.outcome = "400"]
                          ELSE [t EXCEPT !.pc = "selected",
                                         !.is_admin = ~users[t.user_id].is_admin]]
        /\ UNCHANGED <<fk_enforced, entityVars, edgeVars, userVars, requests, last_check,
                       ev_conditions, ev_context, ev_now, ev_result, guard, listing,
                       audit_tasks, audit_logs, access_requests, reviews, addresses>>

\* await db.commit(): UPDATE users SET is_admin = <the value set on the object>
toggle_admin_status_commit(s) ==
    LET t == toggles[s]
    IN  /\ t.pc = "selected"
        /\ users' = [users EXCEPT ![t.user_id].is_admin = t.is_admin]
        /\ toggles' = [toggles EXCEPT ![s] = [t EXCEPT !.pc = "idle", !.outcome = "200"]]
        /\ UNCHANGED <<fk_enforced, entityVars, edgeVars, user_organizations, requests,
                       last_check, ev_conditions, ev_context, ev_now, ev_result, guard,
                       listing, audit_tasks, audit_logs, access_requests, reviews,
                       addresses>>

InitAdmin == InitStore /\ ~fk_enforced /\ InitIdle /\ InitCondIdle

NextAdmin ==
    \E s \in Requests :
        \/ \E caller \in Users, user_id \in UserIds : get_current_admin_user(s, caller, user_id)
        \/ toggle_admin_status_select(s)
        \/ toggle_admin_status_commit(s)

SpecAdmin == InitAdmin /\ [][NextAdmin]_vars

\* C26: whatever toggle_admin_status requests run and however they
\* interleave, some user is an admin.
C26_SomeAdminRemains == \E u \in Users : users[u].is_admin

(***************************************************************************)
(* SpecUpdate: PUT /permissions/{permission_id}.  The rows carry their     *)
(* description here.  A request body is a JSON object, modelled as a       *)
(* function from its keys.                                                 *)
(***************************************************************************)
UpdateBodies ==
    { <<>>,
      [description |-> "edited"],
      [conditions |-> OfficeHours],
      [description |-> "edited", conditions |-> <<>>],
      [name |-> "reports:read", description |-> "edited"],
      [name |-> "claims:write", resource |-> "reports", action |-> "delete",
       conditions |-> OfficeHours] }

\* a plausible slip: the schema declared with every column of the table
PermissionUpdateAnyColumn(body) == body

\* PermissionUpdate(...).model_dump(exclude_unset=True): the keys the schema
\* declares, of those the body sets; pydantic ignores the others
PermissionUpdate(body) ==
    [key \in DOMAIN body \cap {"description", "conditions"} |-> body[key]]

\* for key, value in update_data.items(): setattr(db_permission, key, value)
setattr_items(db_permission, update_data) ==
    [key \in DOMAIN db_permission |->
        IF key \in DOMAIN update_data THEN update_data[key] ELSE db_permission[key]]

update_permission(current_user, permission_id, body) ==
    LET update_data == PermissionUpdate(body)
    IN  /\ users[current_user].is_admin
        /\ permission_id \in DOMAIN permissions
        /\ permissions' = [permissions EXCEPT ![permission_id] =
                              setattr_items(permissions[permission_id], update_data)]
        /\ audit_tasks' = audit_tasks \cup
                              {[action |-> "update", resource_type |-> "permission",
                                resource_id |-> permission_id, details |-> update_data]}
        /\ UNCHANGED <<fk_enforced, roles, groups, retired, edgeVars, userVars, requests,
                       last_check, ev_conditions, ev_context, ev_now, ev_result, guard,
                       listing, audit_logs, orgVars>>

InitUpdate ==
    /\ fk_enforced = FALSE
    /\ permissions =
          [p \in PermIds |->
              IF p = "p1"
              THEN [name |-> "claims:read", resource |-> "claims", action |-> "read",
                    conditions |-> <<>>, description |-> "seeded"]
              ELSE [name |-> "reports:read", resource |-> "reports", action |-> "read",
                    conditions |-> <<>>, description |-> "seeded"]]
    /\ roles = [r \in {"r1"} |-> SeededRole]
    /\ groups = [g \in {} |-> [organization_id |-> NoOrg]]
    /\ retired = {}
    /\ role_permissions \in SUBSET ({"r1"} \X PermIds)
    /\ organization_user_roles = {}
    /\ organization_user_permissions \in SUBSET ({"o1"} \X {"bob"} \X PermIds)
    /\ organization_user_groups = {}
    /\ group_roles = {}
    /\ users = [u \in Users |-> [is_admin |-> (u = "admin"),
                                 current_organization_id |-> NoOrg]]
    /\ user_organizations = {<<"admin", o>> : o \in Orgs}
    /\ InitIdle
    /\ InitCondIdle

NextUpdate ==
    \E current_user \in Users, permission_id \in PermIds, body \in UpdateBodies :
        update_permission(current_user, permission_id, body)

SpecUpdate == InitUpdate /\ [][NextUpdate]_vars

\* C27: update_permission changes nothing but the description and the
\* conditions of the permission: no permission appears or disappears, the
\* name, resource and action of every permission stay as they were, and so
\* do all role-permission and user-permission edges.
C27_UpdateKeepsIdentity ==
    [][/\ DOMAIN permissions' = DOMAIN permissions
       /\ \A p \in DOMAIN permissions :
             /\ DOMAIN permissions'[p] = DOMAIN permissions[p]
             /\ permissions'[p].name = permissions[p].name
             /\ permissions'[p].resource = permissions[p].resource
             /\ permissions'[p].action = permissions[p].action
       /\ UNCHANGED <<role_permissions, organization_user_permissions>>]_vars

\* p1 was updated, by a body that named a description and by one that named
\* conditions, while bound to a role and granted to bob
C27_Witness ==
    /\ permissions["p1"].description = "edited"
    /\ permissions["p1"].conditions = OfficeHours
    /\ permissions["p1"].name = "claims:read"
    /\ \E t \in audit_tasks : t.resource_id = "p1" /\ DOMAIN t.details = {"description"}
    /\ <<"r1", "p1">> \in role_permissions
    /\ <<"o1", "bob", "p1">> \in organization_user_permissions

\* the create_audit_log calls request s has scheduled
TasksOf(s) == {t \in audit_tasks : t.request = s}

\* C28: an assignment request schedules exactly one audit task when it
\* inserted the row and none when it found the row present, answered 404 or
\* failed; and a task is scheduled only in a step after which the row is
\* committed to its table.
C28_OneAuditPerInsert ==
    /\ [](\A s \in Requests :
            Cardinality(TasksOf(s))
            = IF requests[s].pc = "done" /\ requests[s].outcome = "assigned" THEN 1 ELSE 0)
    /\ [][\A t \in audit_tasks' \ audit_tasks :
            /\ t.kind = requests'[t.request].kind
            /\ t.row = requests'[t.request].row
            /\ t.row \in (Table(t.kind))']_vars

\* request A inserted (o1, bob, r1) and scheduled its audit task; request B
\* found the row and scheduled nothing
C28_Witness ==
    /\ requests["B"].outcome = "already"
    /\ requests["B"].after = {"A"}
    /\ requests["A"].outcome = "assigned"
    /\ audit_tasks = {[request |-> "A", action |-> "assign", kind |-> "user_role",
                       row |-> <<"o1", "bob", "r1">>]}

(***************************************************************************)
(* SpecReview: access requests.  create_access_request is one step; a      *)
(* review runs in two, the lookups with the status check and the commit,   *)
(* and reviews of several callers interleave between them.                 *)
(***************************************************************************)
RequestIds == {"q1", "q2"}

NoUser == "<no-user>"

create_access_request(user, organization_id) ==
    /\ <<user, organization_id>> \notin user_organizations
    /\ ~\E q \in DOMAIN access_requests :
          /\ access_requests[q].user_id = user
          /\ access_requests[q].organization_id = organization_id
          /\ access_requests[q].status = "pending"
    /\ \E id \in RequestIds \ DOMAIN access_requests :
          access_requests' =
              Put(access_requests, id,
                  [user_id |-> user, organization_id |-> organization_id,
                   status |-> "pending", reviewed_by_id |-> NoUser])
    /\ UNCHANGED <<fk_enforced, entityVars, edgeVars, userVars, requests, last_check,
                   ev_conditions, ev_context, ev_now, ev_result, guard, listing, audit_tasks,
                   audit_logs, toggles, reviews, addresses>>

\* get_user_organization (403), the SELECT by id and organization (404) and
\* the status check (400)
review_access_request_select(s, user, organization_id, request_id, approved) ==
    LET outcome ==
            IF <<user, organization_id>> \notin user_organizations THEN "403"
            ELSE IF \/ request_id \notin DOMAIN access_requests
                    \/ access_requests[request_id].organization_id # organization_id
            THEN "404"
            ELSE IF access_requests[request_id].status # "pending" THEN "400"
            ELSE "none"
    IN  /\ reviews[s].pc = "idle"
        /\ reviews' = [reviews EXCEPT ![s] =
                          [pc |-> IF outcome = "none" THEN "selected" ELSE "idle",
                           user |-> user, request_id |-> request_id, approved |-> approved,
                           outcome |-> outcome]]
        /\ UNCHANGED <<fk_enforced, entityVars, edgeVars, userVars, requests, last_check,
                       ev_conditions, ev_context, ev_now, ev_result, guard, listing,
                       audit_tasks, audit_logs, toggles, access_requests, addresses>>

\* the assignments on the loaded object, the membership insert of an
\* approval and the commit; an IntegrityError of the insert is not caught
\* and the transaction is rolled back
review_access_request_commit(s) ==
    LET v == reviews[s]
        access_request == access_requests[v.request_id]
        member == <<access_request.user_id, access_request.organization_id>>
        outcome == IF v.approved /\ member \in user_organizations
                   THEN "IntegrityError" ELSE "200"
    IN  /\ v.pc = "selected"
        /\ reviews' = [reviews EXCEPT ![s] = [v EXCEPT !.pc = "idle", !.outcome = outcome]]
        /\ IF outcome = "200"
           THEN /\ access_requests' =
                      [access_requests EXCEPT ![v.request_id] =
                          [access_request EXCEPT
                              !.status = IF v.approved THEN "approved" ELSE "rejected",
                              !.reviewed_by_id = v.user]]
                /\ user_organizations' =
                      IF v.approved THEN user_organizations \cup {member}
                      ELSE user_organizations
           ELSE UNCHANGED <<access_requests, user_organizations>>
        /\ UNCHANGED <<fk_enforced, entityVars, edgeVars, users, requests, last_check,
                       ev_conditions, ev_context, ev_now, ev_result, guard, listing,
                       audit_tasks, audit_logs, toggles, addresses>>

InitReview == InitStore /\ ~fk_enforced /\ InitIdle /\ InitCondIdle

NextReview ==
    \/ \E user \in Users, o \in Orgs : create_access_request(user, o)
    \/ \E s \in Requests, user \in Users, o \in Orgs, q \in RequestIds, approved \in BOOLEAN :
          review_access_request_select(s, user, o, q, approved)
    \/ \E s \in Requests : review_access_request_commit(s)

SpecReview == InitReview /\ [][NextReview]_vars

\* C29: an access request is reviewed at most once: its status only moves
\* from pending to approved or rejected, and once it is not pending no
\* review changes it, however the review requests interleave.
C29_ReviewedOnce ==
    [][\A q \in DOMAIN access_requests :
          /\ access_requests[q].status # "pending" => access_requests'[q] = access_requests[q]
          /\ access_requests'[q].status \in {access_requests[q].status, "approved", "rejected"}
      ]_vars

(***************************************************************************)
(* SpecAddr: the address routes of an organization, each handler one step. *)
(* A handler that ends in 403, 404 or an IntegrityError leaves the table   *)
(* as it was.                                                              *)
(***************************************************************************)
AddressIds == {"a1", "a2", "a3"}

\* organization.addresses
addresses_of(organization_id) ==
    {x \in DOMAIN addresses : addresses[x].organization_id = organization_id}

\* a plausible slip: the loop over the other addresses left out
unset_nothing(organization_id, keep) == addresses

\* for addr in organization.addresses: addr.is_default = False, skipping the
\* ids in `keep`
unset_default(organization_id, keep) ==
    [x \in DOMAIN addresses |->
        IF x \in addresses_of(organization_id) \ keep
        THEN [addresses[x] EXCEPT !.is_default = FALSE]
        ELSE addresses[x]]

\* Depends(get_user_organization)
get_user_organization(organization_id, user) == <<user, organization_id>> \in user_organizations

addrUnchanged ==
    UNCHANGED <<fk_enforced, permissions, roles, groups, edgeVars, userVars, requests,
                last_check, ev_conditions, ev_context, ev_now, ev_result, guard, listing,
                audit_tasks, audit_logs, toggles, access_requests, reviews>>

create_organization_address(user, organization_id, is_default) ==
    LET first_or_default == is_default \/ addresses_of(organization_id) = {}
    IN  /\ get_user_organization(organization_id, user)
        /\ \E id \in FreshIds(AddressIds, addresses) :
              addresses' =
                  Put(IF first_or_default THEN unset_default(organization_id, {})
                      ELSE addresses,
                      id, [organization_id |-> organization_id,
                           is_default |-> first_or_default])
        /\ UNCHANGED retired
        /\ addrUnchanged

\* is_default of the body: "unset", "null", or a boolean as "true" / "false";
\* null breaks NOT NULL at the commit
update_organization_address(user, organization_id, address_id, is_default) ==
    /\ get_user_organization(organization_id, user)
    /\ address_id \in addresses_of(organization_id)
    /\ is_default # "null"
    /\ addresses' =
          LET others == IF is_default = "true"
                        THEN unset_default(organization_id, {address_id})
                        ELSE addresses
          IN  IF is_default = "unset" THEN others
              ELSE [others EXCEPT ![address_id].is_default = (is_default = "true")]
    /\ UNCHANGED retired
    /\ addrUnchanged

\* the delete and, when the default was deleted, the promotion of
\* organization.addresses[0]; the relationship orders by is_default
\* descending and nothing else
delete_organization_address(user, organization_id, address_id) ==
    LET was_default == addresses[address_id].is_default
        left == Remove(addresses, address_id)
        remaining == {x \in DOMAIN left : left[x].organization_id = organization_id}
        firsts == IF \E x \in remaining : left[x].is_default
                  THEN {x \in remaining : left[x].is_default}
                  ELSE remaining
    IN  /\ get_user_organization(organization_id, user)
        /\ address_id \in addresses_of(organization_id)
        /\ IF was_default /\ remaining # {}
           THEN \E x \in firsts : addresses' = [left EXCEPT ![x].is_default = TRUE]
           ELSE addresses' = left
        /\ retired' = retired \cup {address_id}
        /\ addrUnchanged

set_default_address(user, organization_id, address_id) ==
    /\ get_user_organization(organization_id, user)
    /\ address_id \in addresses_of(organization_id)
    /\ addresses' = [unset_default(organization_id, {}) EXCEPT ![address_id].is_default = TRUE]
    /\ UNCHANGED retired
    /\ addrUnchanged

InitAddr == InitStore /\ ~fk_enforced /\ InitIdle /\ InitCondIdle

NextAddr ==
    \E user \in Users, o \in Orgs :
        \/ \E is_default \in BOOLEAN : create_organization_address(user, o, is_default)
        \/ \E x \in AddressIds, is_default \in {"unset", "null", "true", "false"} :
              update_organization_address(user, o, x, is_default)
        \/ \E x \in AddressIds : delete_organization_address(user, o, x)
        \/ \E x \in AddressIds : set_default_address(user, o, x)

SpecAddr == InitAddr /\ [][NextAddr]_vars

defaults_of(organization_id) ==
    {x \in addresses_of(organization_id) : addresses[x].is_default}

\* C30: after any sequence of create, update, set-default and delete address
\* operations, at most one address of an organization has is_default set.
C30_AtMostOneDefault == \A o \in Orgs : Cardinality(defaults_of(o)) <= 1

\* addresses were created in o1, one was deleted, and of the two that are
\* left one is the default
C30_Witness ==
    /\ addresses_of("o1") = {"a2", "a3"}
    /\ defaults_of("o1") = {"a3"}
    /\ retired = {"a1"}

====
